---- MODULE Spec2Model ----
(***************************************************************************)
(* Model of the scientific essay generator: the command line entry point   *)
(* (examples/scientific_essay_generator.py) and the browser entry point    *)
(* (owl/webapp_essay.py).  Text values are sequences of one-character      *)
(* strings; the fixed pieces of a template are kept as single elements.    *)
(***************************************************************************)
EXTENDS Integers, Sequences, FiniteSets, TLC

VARIABLES entry, env, clock, ticks, essaysDir, files, cli, ui, outputs,
          cancelledInFlight

vars == <<entry, env, clock, ticks, essaysDir, files, cli, ui, outputs,
          cancelledInFlight>>

(***************************************************************************)
(* Bounds of the model.                                                    *)
(***************************************************************************)
MaxReq == 2
MaxTicks == 1
MaxLen == 3
MaxNameLen == 6
MaxPages == 3

None == "None"

(***************************************************************************)
(* Text helpers.                                                           *)
(***************************************************************************)
Letters ==
  {"a", "b", "c", "d", "e", "f", "g", "h", "i", "j", "k", "l", "m", "n", "o", "p",
   "q", "r", "s", "t", "u", "v", "w", "x", "y", "z", "C", "Q", "Z"}

Digits == {"0", "1", "2", "3", "4", "5", "6", "7", "8", "9"}

Whitespace == {" "}

\* str.isalnum() of one character
isalnum(c) == c \in Letters \cup Digits

SeqsUpTo(S, n) == UNION {[1..k -> S] : k \in 0..n}

DigitChar(d) ==
  CASE d = 0 -> "0" [] d = 1 -> "1" [] d = 2 -> "2" [] d = 3 -> "3" [] d = 4 -> "4"
    [] d = 5 -> "5" [] d = 6 -> "6" [] d = 7 -> "7" [] d = 8 -> "8" [] d = 9 -> "9"

RECURSIVE NatStr(_)
NatStr(n) == IF n < 10 THEN <<DigitChar(n)>> ELSE NatStr(n \div 10) \o <<DigitChar(n % 10)>>

\* str(n) of a Python int, as an f-string renders it
IntStr(n) == IF n < 0 THEN <<"-">> \o NatStr(-n) ELSE NatStr(n)

\* n rendered with at least w digits, zero padded (strftime fields)
RECURSIVE Pad(_, _)
Pad(n, w) == IF Len(NatStr(n)) >= w THEN NatStr(n) ELSE <<"0">> \o Pad(n, w - 1)

\* str.endswith
endswith(s, suf) ==
  /\ Len(s) >= Len(suf)
  /\ SubSeq(s, Len(s) - Len(suf) + 1, Len(s)) = suf

DotMd == <<".", "m", "d">>

(***************************************************************************)
(* Values supplied by the outside world.                                   *)
(***************************************************************************)
DefaultInstructions ==
  <<"Include at least 10 scientific references and add visual representations where appropriate.">>

DefaultPages == 5

SliderMinimum == 1

\* what run_society may return, and the errors the framework may raise
Answers == {<<"# Essay">>}

TokenCounts == {1200}

Errors == {"model call failed"}

\* the value of OPENAI_API_KEY after load_dotenv; "" stands for not set
DotEnvKeys == {"", "sk-env"}

(***************************************************************************)
(* construct_scientific_essay_society                                      *)
(***************************************************************************)
WordsPerPage == 500

\* a faulty variant: 50 words per page
word_count_mut(pages) == pages * 50

word_count(pages) == pages * WordsPerPage

TopicOpen == "I need a comprehensive scientific essay on the topic: '"

TopicClose == "'. "

WordsOpen == "The essay should be approximately "

WordsClose == " words (about "

PagesClose == " pages). "

InstrOpen == "Additional requirements: "

InstrClose == ". "

PromptTail ==
  <<"The essay should follow proper academic structure with an abstract, introduction, ",
    "methodology/literature review, discussion, conclusion, and references. ",
    "Use recent scientific research and cite sources properly in a standard academic format. ",
    "When complete, save the essay as a Markdown file.">>

task_prompt(topic, pages, instructions) ==
  <<TopicOpen>> \o topic \o <<TopicClose>>
    \o <<WordsOpen>> \o IntStr(word_count(pages)) \o <<WordsClose>>
    \o IntStr(pages) \o <<PagesClose>>
    \o <<InstrOpen>> \o instructions \o <<InstrClose>>
    \o PromptTail

NoSociety == [task_prompt |-> <<>>, credential |-> None]

\* The society returned for a request: the prompt, and the credential the three
\* models were created with (ModelFactory.create reads OPENAI_API_KEY).
construct_scientific_essay_society(topic, pages, instructions, key) ==
  [task_prompt |-> task_prompt(topic, pages, instructions), credential |-> key]

(***************************************************************************)
(* Output file names.                                                      *)
(***************************************************************************)
CliEssays == <<".", "/", "e", "s", "s", "a", "y", "s", "/">>

UiEssays == <<"<base_dir>/essays/">>

EssayPrefix == <<"scientific_essay_">>

\* a faulty variant: the other characters are dropped, not replaced
cli_safe_topic_mut(topic) == SelectSeq(topic, isalnum)

\* safe_topic of main
cli_safe_topic(topic) ==
  [i \in 1..Len(topic) |-> IF isalnum(topic[i]) THEN topic[i] ELSE "_"]

\* safe_topic of generate_essay
ui_safe_topic(topic) ==
  [i \in 1..Len(topic) |-> IF isalnum(topic[i]) THEN topic[i] ELSE "_"]

\* args.output: Absent is Python's None, Given(name) a name from the command line
Absent == <<>>

Given(name) == <<name>>

\* a faulty variant: .md is appended to every given name
cli_output_filename_mut(topic, output) ==
  IF output = Absent
    THEN CliEssays \o EssayPrefix \o cli_safe_topic(topic) \o DotMd
    ELSE CliEssays \o output[1] \o DotMd

\* output_filename of main
cli_output_filename(topic, output) ==
  IF output = Absent
    THEN CliEssays \o EssayPrefix \o cli_safe_topic(topic) \o DotMd
    ELSE LET named == CliEssays \o output[1]
         IN  IF ~endswith(named, DotMd) THEN named \o DotMd ELSE named

SecondsPerMinute == 60

MinutesPerHour == 60

HoursPerDay == 24

\* a faulty variant: the format lacks %S
strftime_mut(t) ==
  LET m == (t \div SecondsPerMinute) % MinutesPerHour
      h == (t \div (SecondsPerMinute * MinutesPerHour)) % HoursPerDay
      d == 1 + (t \div (SecondsPerMinute * MinutesPerHour * HoursPerDay))
  IN  Pad(2025, 4) \o Pad(1, 2) \o Pad(d, 2) \o <<"_">> \o Pad(h, 2) \o Pad(m, 2)

\* time.strftime("%Y%m%d_%H%M%S") of the local time t seconds after
\* 00:00:00 on the first day of the base month
strftime(t) ==
  LET s == t % SecondsPerMinute
      m == (t \div SecondsPerMinute) % MinutesPerHour
      h == (t \div (SecondsPerMinute * MinutesPerHour)) % HoursPerDay
      d == 1 + (t \div (SecondsPerMinute * MinutesPerHour * HoursPerDay))
  IN  Pad(2025, 4) \o Pad(1, 2) \o Pad(d, 2) \o <<"_">>
        \o Pad(h, 2) \o Pad(m, 2) \o Pad(s, 2)

\* full_path of generate_essay
ui_full_path(topic, t) ==
  UiEssays \o EssayPrefix \o ui_safe_topic(topic) \o <<"_">> \o strftime(t) \o DotMd

\* open(path, "w") followed by write(content)
WriteFile(fs, path, content) ==
  [p \in (DOMAIN fs) \cup {path} |-> IF p = path THEN content ELSE fs[p]]

(***************************************************************************)
(* State.                                                                  *)
(*   entry      which program was started: the script or the web app       *)
(*   env        os.environ["OPENAI_API_KEY"] of the process                *)
(*   clock      local time in seconds; ticks counts its advances           *)
(*   essaysDir  whether the essays directory exists                        *)
(*   files      the files of the essays directory, path -> content         *)
(*   cli        the run of main                                            *)
(*   ui         the calls of on_generate, one per request                  *)
(*   outputs    the components essay_output, file_path, token_count        *)
(*   cancelledInFlight   the requests a click on Cancel found generating    *)
(***************************************************************************)
ReqIds == 1..MaxReq

CliStart ==
  [pc |-> "start", topic |-> <<>>, pages |-> 0, instructions |-> <<>>, output |-> Absent,
   society |-> NoSociety, answer |-> <<>>, tokens |-> 0, output_filename |-> <<>>,
   exitcode |-> "running", err |-> None, created |-> FALSE, runs |-> 0, wrote |-> FALSE]

UiIdle ==
  [pc |-> "idle", api_key |-> "", topic |-> <<>>, pages |-> 0, instructions |-> <<>>,
   society |-> NoSociety, answer |-> <<>>, tokens |-> 0, err |-> None,
   full_path |-> <<>>, stamp |-> 0, ret |-> <<>>,
   envset |-> FALSE, created |-> FALSE, runs |-> 0, wrote |-> FALSE]

InitialOutputs == <<<<"Your essay will appear here">>, <<>>, 0>>

ClockStarts == {58}

Init ==
  /\ entry \in {"cli", "ui"}
  /\ env \in DotEnvKeys
  /\ clock \in IF entry = "ui" THEN ClockStarts ELSE {0}
  /\ ticks = 0
  /\ essaysDir \in IF entry = "ui" THEN {TRUE} ELSE BOOLEAN
  /\ files = [p \in {} |-> <<>>]
  /\ cli = CliStart
  /\ ui = [r \in ReqIds |-> UiIdle]
  /\ outputs = InitialOutputs
  /\ cancelledInFlight = {}

(***************************************************************************)
(* The script: main.                                                       *)
(***************************************************************************)
\* parse_args without --topic: argparse prints the usage and exits with 2
main_usage_error ==
  /\ entry = "cli"
  /\ cli.pc = "start"
  /\ cli' = [cli EXCEPT !.pc = "exit", !.exitcode = "2"]
  /\ UNCHANGED <<entry, env, clock, ticks, essaysDir, files, ui, outputs,
                 cancelledInFlight>>

\* parse_args, then mkdir(exist_ok=True)
main_parse_args(topic, pages, instructions, output) ==
  /\ entry = "cli"
  /\ cli.pc = "start"
  /\ cli' = [cli EXCEPT !.pc = "construct", !.topic = topic, !.pages = pages,
                        !.instructions = instructions, !.output = output]
  /\ essaysDir' = TRUE
  /\ UNCHANGED <<entry, env, clock, ticks, files, ui, outputs, cancelledInFlight>>

\* society = construct_scientific_essay_society(...); the framework may raise
main_construct ==
  /\ entry = "cli"
  /\ cli.pc = "construct"
  /\ \/ cli' = [cli EXCEPT !.pc = "run", !.created = TRUE,
                           !.society = construct_scientific_essay_society(
                                         cli.topic, cli.pages, cli.instructions, env)]
     \/ \E e \in Errors :
          cli' = [cli EXCEPT !.pc = "exit", !.created = TRUE, !.err = e, !.exitcode = "1"]
  /\ UNCHANGED <<entry, env, clock, ticks, essaysDir, files, ui, outputs,
                 cancelledInFlight>>

\* answer, chat_history, token_count = run_society(society); it may raise
main_run_society ==
  /\ entry = "cli"
  /\ cli.pc = "run"
  /\ \/ \E a \in Answers, n \in TokenCounts :
          cli' = [cli EXCEPT !.pc = "save", !.runs = @ + 1, !.answer = a, !.tokens = n]
     \/ \E e \in Errors :
          cli' = [cli EXCEPT !.pc = "exit", !.runs = @ + 1, !.err = e, !.exitcode = "1"]
  /\ UNCHANGED <<entry, env, clock, ticks, essaysDir, files, ui, outputs,
                 cancelledInFlight>>

\* the output file name, the write of the essay, the final prints
main_save ==
  /\ entry = "cli"
  /\ cli.pc = "save"
  /\ LET name == cli_output_filename(cli.topic, cli.output)
     IN  /\ files' = WriteFile(files, name, cli.answer)
         /\ cli' = [cli EXCEPT !.pc = "exit", !.output_filename = name, !.wrote = TRUE,
                               !.exitcode = "0"]
  /\ UNCHANGED <<entry, env, clock, ticks, essaysDir, ui, outputs,
                 cancelledInFlight>>

(***************************************************************************)
(* The web app: on_generate, generate_essay, on_cancel.                    *)
(***************************************************************************)
MissingKeyMessage == <<"Please enter your OpenAI API key">>

MissingTopicMessage == <<"Please enter a topic for your essay">>

CanceledMessage == <<"Generation canceled">>

ErrorMessage(e) == <<"Error: ", e>>

\* on_generate up to the call of generate_essay; requests are numbered in the
\* order of the clicks
on_generate(r, api_key, topic, pages, instructions) ==
  /\ entry = "ui"
  /\ ui[r].pc = "idle"
  /\ \A q \in ReqIds : q < r => ui[q].pc # "idle"
  /\ IF api_key = ""
       THEN /\ ui' = [ui EXCEPT ![r].pc = "done", ![r].api_key = api_key,
                                ![r].topic = topic, ![r].pages = pages,
                                ![r].instructions = instructions,
                                ![r].ret = <<MissingKeyMessage, <<>>, 0>>]
            /\ outputs' = <<MissingKeyMessage, <<>>, 0>>
       ELSE IF topic = <<>>
         THEN /\ ui' = [ui EXCEPT ![r].pc = "done", ![r].api_key = api_key,
                                  ![r].topic = topic, ![r].pages = pages,
                                  ![r].instructions = instructions,
                                  ![r].ret = <<MissingTopicMessage, <<>>, 0>>]
              /\ outputs' = <<MissingTopicMessage, <<>>, 0>>
         ELSE /\ ui' = [ui EXCEPT ![r].pc = "env", ![r].api_key = api_key,
                                  ![r].topic = topic, ![r].pages = pages,
                                  ![r].instructions = instructions]
              /\ UNCHANGED outputs
  /\ UNCHANGED <<entry, env, clock, ticks, essaysDir, files, cli, cancelledInFlight>>

\* os.environ["OPENAI_API_KEY"] = api_key
generate_essay_setenv(r) ==
  /\ entry = "ui"
  /\ ui[r].pc = "env"
  /\ env' = ui[r].api_key
  /\ ui' = [ui EXCEPT ![r].pc = "construct", ![r].envset = TRUE]
  /\ UNCHANGED <<entry, clock, ticks, essaysDir, files, cli, outputs,
                 cancelledInFlight>>

\* society = construct_scientific_essay_society(...); the framework may raise
generate_essay_construct(r) ==
  /\ entry = "ui"
  /\ ui[r].pc = "construct"
  /\ \/ ui' = [ui EXCEPT ![r].pc = "run", ![r].created = TRUE,
                         ![r].society = construct_scientific_essay_society(
                                          ui[r].topic, ui[r].pages, ui[r].instructions, env)]
     \/ \E e \in Errors :
          ui' = [ui EXCEPT ![r].pc = "except", ![r].created = TRUE, ![r].err = e]
  /\ UNCHANGED <<entry, env, clock, ticks, essaysDir, files, cli, outputs,
                 cancelledInFlight>>

\* a faulty variant: an error of run_society is swallowed and the essay saved
generate_essay_run_society_mut(r) ==
  /\ entry = "ui"
  /\ ui[r].pc = "run"
  /\ \/ \E a \in Answers, n \in TokenCounts :
          ui' = [ui EXCEPT ![r].pc = "save", ![r].runs = @ + 1, ![r].answer = a,
                           ![r].tokens = n]
     \/ \E e \in Errors :
          ui' = [ui EXCEPT ![r].pc = "save", ![r].runs = @ + 1, ![r].err = e]
  /\ UNCHANGED <<entry, env, clock, ticks, essaysDir, files, cli, outputs,
                 cancelledInFlight>>

\* answer, chat_history, token_count = run_society(society); it may raise
generate_essay_run_society(r) ==
  /\ entry = "ui"
  /\ ui[r].pc = "run"
  /\ \/ \E a \in Answers, n \in TokenCounts :
          ui' = [ui EXCEPT ![r].pc = "save", ![r].runs = @ + 1, ![r].answer = a,
                           ![r].tokens = n]
     \/ \E e \in Errors :
          ui' = [ui EXCEPT ![r].pc = "except", ![r].runs = @ + 1, ![r].err = e]
  /\ UNCHANGED <<entry, env, clock, ticks, essaysDir, files, cli, outputs,
                 cancelledInFlight>>

\* the file name from the topic and the clock, the write of the essay, the
\* return of generate_essay and of on_generate
generate_essay_save(r) ==
  /\ entry = "ui"
  /\ ui[r].pc = "save"
  /\ LET path == ui_full_path(ui[r].topic, clock)
         result == <<ui[r].answer, path, ui[r].tokens>>
     IN  /\ files' = WriteFile(files, path, ui[r].answer)
         /\ ui' = [ui EXCEPT ![r].pc = "done", ![r].full_path = path, ![r].stamp = clock,
                             ![r].wrote = TRUE, ![r].ret = result]
         /\ outputs' = result
  /\ UNCHANGED <<entry, env, clock, ticks, essaysDir, cli, cancelledInFlight>>

\* except Exception as e, in on_generate
on_generate_except(r) ==
  /\ entry = "ui"
  /\ ui[r].pc = "except"
  /\ LET result == <<ErrorMessage(ui[r].err), <<>>, 0>>
     IN  /\ ui' = [ui EXCEPT ![r].pc = "done", ![r].ret = result]
         /\ outputs' = result
  /\ UNCHANGED <<entry, env, clock, ticks, essaysDir, files, cli, cancelledInFlight>>

\* a request between the construction of its society and its return
Generating(r) == ui[r].pc \in {"run", "save"}

\* a faulty variant: Cancel ends the requests that are generating
on_cancel_mut ==
  /\ entry = "ui"
  /\ outputs' = <<CanceledMessage, <<>>, 0>>
  /\ cancelledInFlight' = cancelledInFlight \cup {r \in ReqIds : Generating(r)}
  /\ ui' = [r \in ReqIds |-> IF Generating(r) THEN [ui[r] EXCEPT !.pc = "done"] ELSE ui[r]]
  /\ UNCHANGED <<entry, env, clock, ticks, essaysDir, files, cli>>

\* on_cancel: the three outputs are replaced, nothing else is touched
on_cancel ==
  /\ entry = "ui"
  /\ outputs' = <<CanceledMessage, <<>>, 0>>
  /\ cancelledInFlight' = cancelledInFlight \cup {r \in ReqIds : Generating(r)}
  /\ UNCHANGED <<entry, env, clock, ticks, essaysDir, files, cli, ui>>

\* the local clock advances by d seconds
Tick(d) ==
  /\ entry = "ui"
  /\ ticks < MaxTicks
  /\ clock' = clock + d
  /\ ticks' = ticks + 1
  /\ UNCHANGED <<entry, env, essaysDir, files, cli, ui, outputs, cancelledInFlight>>

(***************************************************************************)
(* Inputs and specifications.                                              *)
(***************************************************************************)
UiKeys == {"sk-1", "sk-2"}

TopicKeys == {"", "sk-1"}

CliTopics == {<<>>, <<" ">>, <<"a">>}

UiTopics == {<<>>, <<"a">>}

CliPages == {0, 1}

UiPages == {DefaultPages}

CliOutputs == {Absent, Given(<<"r">>)}

Next ==
  \/ main_usage_error
  \/ \E t \in CliTopics, p \in CliPages, o \in CliOutputs :
       main_parse_args(t, p, DefaultInstructions, o)
  \/ main_construct
  \/ main_run_society
  \/ main_save
  \/ \E r \in ReqIds, k \in UiKeys, t \in UiTopics, p \in UiPages :
       on_generate(r, k, t, p, DefaultInstructions)
  \/ \E r \in ReqIds : generate_essay_setenv(r)
  \/ \E r \in ReqIds : generate_essay_construct(r)
  \/ \E r \in ReqIds : generate_essay_run_society(r)
  \/ \E r \in ReqIds : generate_essay_save(r)
  \/ \E r \in ReqIds : on_generate_except(r)
  \/ on_cancel

Spec == Init /\ [][Next]_vars

(***************************************************************************)
(* SpecTopic: one request with a topic, a page count and instructions      *)
(* drawn from larger sets, through the script or through the web app; once *)
(* an essay came back the web form may be submitted again unchanged, with  *)
(* another key.                                                            *)
(***************************************************************************)
QuantumComputing ==
  <<"Q", "u", "a", "n", "t", "u", "m", " ", "C", "o", "m", "p", "u", "t", "i", "n", "g", "!">>

TopicChars == {"a", "7", " ", "!", "_"}

RichTopics == SeqsUpTo(TopicChars, MaxLen) \cup {QuantumComputing}

RichPages == (-1)..MaxPages

SliderPages == SliderMinimum..MaxPages

Instructions == {<<>>, DefaultInstructions}

InitTopic == Init /\ env = "sk-env" /\ (entry = "cli" => essaysDir)

NextTopic ==
  \/ /\ entry = "cli" /\ cli.pc = "start"
     /\ \E t \in RichTopics, p \in RichPages, i \in Instructions :
          main_parse_args(t, p, i, Absent)
  \/ main_construct
  \/ main_run_society
  \/ main_save
  \/ /\ entry = "ui" /\ ui[1].pc = "idle"
     /\ \E k \in TopicKeys, t \in RichTopics, p \in SliderPages, i \in Instructions :
          on_generate(1, k, t, p, i)
  \/ \E r \in ReqIds \ {1} :
       /\ ui[r - 1].pc = "done" /\ ui[r - 1].wrote
       /\ on_generate(r, "sk-2", ui[1].topic, ui[1].pages, ui[1].instructions)
  \/ \E r \in ReqIds : generate_essay_setenv(r)
  \/ \E r \in ReqIds : generate_essay_construct(r)
  \/ \E r \in ReqIds : generate_essay_run_society(r)
  \/ \E r \in ReqIds : generate_essay_save(r)
  \/ \E r \in ReqIds : on_generate_except(r)

SpecTopic == InitTopic /\ [][NextTopic]_vars

(***************************************************************************)
(* SpecName: the script run with --output drawn from a larger set.         *)
(***************************************************************************)
NameChars == {"r", ".", "m", "d"}

RichNames == SeqsUpTo(NameChars, MaxNameLen)

InitName == Init /\ entry = "cli" /\ env = "sk-env" /\ essaysDir

NextName ==
  \/ /\ cli.pc = "start"
     /\ \E o \in RichNames :
          main_parse_args(<<"x">>, DefaultPages, DefaultInstructions, Given(o))
  \/ main_construct
  \/ main_run_society
  \/ main_save

SpecName == InitName /\ [][NextName]_vars

(***************************************************************************)
(* SpecClock: the web form submitted again and again with one topic, one   *)
(* request after the other, while the clock moves by larger steps.         *)
(***************************************************************************)
RichClockStarts == {0, 59, 3599, 86399}

ClockSteps == {1, 59, 60, 3600, 86400}

InitClock ==
  /\ entry = "ui"
  /\ env = "sk-env"
  /\ clock \in RichClockStarts
  /\ ticks = 0
  /\ essaysDir = TRUE
  /\ files = [p \in {} |-> <<>>]
  /\ cli = CliStart
  /\ ui = [r \in ReqIds |-> UiIdle]
  /\ outputs = InitialOutputs
  /\ cancelledInFlight = {}

NextClock ==
  \/ \E r \in ReqIds :
       /\ \A q \in ReqIds : q < r => ui[q].pc = "done"
       /\ on_generate(r, "sk-1", <<"a">>, DefaultPages, DefaultInstructions)
  \/ \E r \in ReqIds : generate_essay_setenv(r)
  \/ \E r \in ReqIds : generate_essay_construct(r)
  \/ \E r \in ReqIds : generate_essay_run_society(r)
  \/ \E r \in ReqIds : generate_essay_save(r)
  \/ \E r \in ReqIds : on_generate_except(r)
  \/ \E d \in ClockSteps : Tick(d)

SpecClock == InitClock /\ [][NextClock]_vars

(***************************************************************************)
(* Properties.                                                             *)
(***************************************************************************)
\* topic.strip() == ""
IsBlank(topic) == \A i \in 1..Len(topic) : topic[i] \in Whitespace

InvalidRequest(topic, pages) == IsBlank(topic) \/ pages < 1

CliParsed == cli.pc \in {"construct", "run", "save"} \/ cli.exitcode \in {"0", "1"}

Submitted(r) == ui[r].pc # "idle"

\* the external calls, the environment write and the file write of a request
CliTouchedNothing == ~cli.created /\ cli.runs = 0 /\ ~cli.wrote

UiTouchedNothing(r) ==
  ~ui[r].envset /\ ~ui[r].created /\ ui[r].runs = 0 /\ ~ui[r].wrote

\* C1: a society (a task prompt) is never built for a request whose topic is
\* empty or blank or whose page count is below 1.
C1_InvalidRequestRejected ==
  /\ cli.society # NoSociety => ~InvalidRequest(cli.topic, cli.pages)
  /\ \A r \in ReqIds :
       ui[r].society # NoSociety => ~InvalidRequest(ui[r].topic, ui[r].pages)

\* C2: a request with an empty or blank topic, a page count below 1 or no
\* credential makes no external call, sets no environment variable and writes
\* no file, in either entry point.
C2_InvalidReportedBeforeExternalCall ==
  /\ (CliParsed /\ (InvalidRequest(cli.topic, cli.pages) \/ env = ""))
       => CliTouchedNothing
  /\ \A r \in ReqIds :
       (Submitted(r) /\ (InvalidRequest(ui[r].topic, ui[r].pages) \/ ui[r].api_key = ""))
         => UiTouchedNothing(r)

\* C3: the society of every web request is constructed with the api_key of
\* that request, whatever the other requests do.
C3_OwnCredential ==
  \A r \in ReqIds : ui[r].society # NoSociety => ui[r].society.credential = ui[r].api_key

\* C4: no two calls of generate_essay write the same path.
C4_NoPathCollision ==
  \A r1, r2 \in ReqIds :
    (r1 # r2 /\ ui[r1].wrote /\ ui[r2].wrote) => ui[r1].full_path # ui[r2].full_path

\* C5: when the construction of the society or run_society raises, the script
\* exits with status 1 and the web app returns the error message with an
\* empty path and 0 tokens; run_society was called at most once and the
\* request wrote no file.
C5_FailureSurfaced ==
  /\ cli.err # None =>
       /\ cli.pc = "exit" /\ cli.exitcode = "1"
       /\ cli.runs <= 1 /\ ~cli.wrote /\ DOMAIN files = {}
  /\ \A r \in ReqIds :
       ui[r].err # None =>
         /\ ui[r].pc \in {"except", "done"}
         /\ ui[r].runs <= 1 /\ ~ui[r].wrote
         /\ ui[r].pc = "done" =>
              /\ ui[r].ret = <<ErrorMessage(ui[r].err), <<>>, 0>>
              /\ ui[r].full_path = <<>>

C5_Witness ==
  \E r \in ReqIds : ui[r].pc = "done" /\ ui[r].err # None /\ ui[r].runs = 1

DotMdDotMd == DotMd \o DotMd

CliNamed == cli.wrote /\ cli.output # Absent

\* C6 as stated: the path of a named output is the name under ./essays/ with
\* .md appended exactly when the name does not end in .md, and it ends in one
\* .md suffix, never in two.
C6_ExactlyOneMd ==
  CliNamed =>
    /\ cli.output_filename
         = CliEssays \o (IF endswith(cli.output[1], DotMd)
                           THEN cli.output[1] ELSE cli.output[1] \o DotMd)
    /\ endswith(cli.output_filename, DotMd)
    /\ ~endswith(cli.output_filename, DotMdDotMd)

\* C6 as amended: the same, except that the path ends in two .md suffixes
\* exactly when the given name itself ends in .md.md.
C6_MdAppendedWhenMissing ==
  CliNamed =>
    /\ cli.output_filename
         = CliEssays \o (IF endswith(cli.output[1], DotMd)
                           THEN cli.output[1] ELSE cli.output[1] \o DotMd)
    /\ cli.output_filename \in DOMAIN files
    /\ endswith(cli.output_filename, DotMd)
    /\ endswith(cli.output_filename, DotMdDotMd) <=> endswith(cli.output[1], DotMdDotMd)

C6_Witness ==
  /\ CliNamed
  /\ cli.output = Given(<<"r", ".", "m", "d">>)
  /\ cli.output_filename = CliEssays \o <<"r", ".", "m", "d">>

\* the text a sanitized topic must be: as long as the topic, alphanumeric
\* characters kept, every other character an underscore
IsSafeTopicOf(safe, topic) ==
  /\ Len(safe) = Len(topic)
  /\ \A i \in 1..Len(topic) :
       safe[i] = (IF topic[i] \in Letters \cup Digits THEN topic[i] ELSE "_")

IsDigits(ds) == \A i \in 1..Len(ds) : ds[i] \in Digits

\* YYYYmmdd_HHMMSS
IsTimestamp(ts) ==
  /\ Len(ts) = 15
  /\ IsDigits(SubSeq(ts, 1, 8))
  /\ ts[9] = "_"
  /\ IsDigits(SubSeq(ts, 10, 15))

CliByTopic == cli.wrote /\ cli.output = Absent

\* the part of a path between a head of n elements and a tail of m elements
Middle(path, n, m) == SubSeq(path, n + 1, Len(path) - m)

QuantumPath ==
  <<".", "/", "e", "s", "s", "a", "y", "s", "/", "scientific_essay_",
    "Q", "u", "a", "n", "t", "u", "m", "_", "C", "o", "m", "p", "u", "t", "i", "n", "g", "_",
    ".", "m", "d">>

\* C7: without an explicit name the script writes
\* ./essays/scientific_essay_<safe_topic>.md and the web app writes
\* scientific_essay_<safe_topic>_<timestamp>.md in its essays directory, where
\* safe_topic is the topic with every non-alphanumeric character replaced by
\* an underscore; both entry points compute the same safe_topic.
C7_SafeTopicPath ==
  /\ CliByTopic =>
       LET path == cli.output_filename
           safe == Middle(path, Len(CliEssays) + 1, Len(DotMd))
       IN  /\ path \in DOMAIN files
           /\ SubSeq(path, 1, Len(CliEssays) + 1) = CliEssays \o EssayPrefix
           /\ endswith(path, DotMd)
           /\ IsSafeTopicOf(safe, cli.topic)
           /\ safe = ui_safe_topic(cli.topic)
           /\ cli.topic = QuantumComputing => path = QuantumPath
  /\ \A r \in ReqIds :
       ui[r].wrote =>
         LET path == ui[r].full_path
             n == Len(ui[r].topic)
             safe == SubSeq(path, 3, 2 + n)
         IN  /\ path \in DOMAIN files
             /\ SubSeq(path, 1, 2) = UiEssays \o EssayPrefix
             /\ IsSafeTopicOf(safe, ui[r].topic)
             /\ safe = cli_safe_topic(ui[r].topic)
             /\ path[3 + n] = "_"
             /\ IsTimestamp(Middle(path, 3 + n, Len(DotMd)))
             /\ endswith(path, DotMd)

C7_Witness == CliByTopic /\ cli.topic = QuantumComputing

\* C8: two requests for the same topic whose saves read clocks at least one
\* second apart are written to different paths.
C8_DistinctAcrossSeconds ==
  \A r1, r2 \in ReqIds :
    ( /\ r1 # r2
      /\ ui[r1].wrote /\ ui[r2].wrote
      /\ ui[r1].topic = ui[r2].topic
      /\ ui[r2].stamp - ui[r1].stamp >= 1 )
    => ui[r1].full_path # ui[r2].full_path

C8_Witness ==
  \E r1, r2 \in ReqIds :
    /\ ui[r1].wrote /\ ui[r2].wrote
    /\ ui[r1].topic = ui[r2].topic
    /\ ui[r2].stamp - ui[r1].stamp = 1
    /\ ui[r1].full_path # ui[r2].full_path

\* the first place of element a in s (0 when absent)
IndexOf(s, a) ==
  IF \E i \in 1..Len(s) : s[i] = a
    THEN CHOOSE i \in 1..Len(s) : s[i] = a /\ \A j \in 1..(i - 1) : s[j] # a
    ELSE 0

\* the elements of s between the template pieces a and b
Between(s, a, b) == SubSeq(s, IndexOf(s, a) + 1, IndexOf(s, b) - 1)

DigitValue(c) == CHOOSE d \in 0..9 : DigitChar(d) = c

RECURSIVE ParseNat(_)
ParseNat(ds) ==
  IF Len(ds) = 0 THEN 0
  ELSE 10 * ParseNat(SubSeq(ds, 1, Len(ds) - 1)) + DigitValue(ds[Len(ds)])

\* a decimal literal of n, without sign or leading zero
IsLiteralOf(ds, n) ==
  /\ Len(ds) >= 1
  /\ IsDigits(ds)
  /\ ds[1] # "0"
  /\ ParseNat(ds) = n

PromptStates(prompt, topic, pages, instructions) ==
  /\ IndexOf(prompt, TopicOpen) = 1
  /\ Between(prompt, TopicOpen, TopicClose) = topic
  /\ IsLiteralOf(Between(prompt, WordsOpen, WordsClose), pages * 500)
  /\ IsLiteralOf(Between(prompt, WordsClose, PagesClose), pages)
  /\ Between(prompt, InstrOpen, InstrClose) = instructions
  /\ IndexOf(prompt, TopicClose) + 1 = IndexOf(prompt, WordsOpen)
  /\ IndexOf(prompt, PagesClose) + 1 = IndexOf(prompt, InstrOpen)
  /\ SubSeq(prompt, IndexOf(prompt, InstrClose) + 1, Len(prompt)) = PromptTail

\* C9: for pages >= 1 the task prompt of a constructed society states
\* pages * 500 as the word count, the page count, the topic and the
\* instructions verbatim, and requests with equal topic, pages and
\* instructions get equal prompts.
C9_PromptEmbedsInputs ==
  /\ (cli.society # NoSociety /\ cli.pages >= 1) =>
       PromptStates(cli.society.task_prompt, cli.topic, cli.pages, cli.instructions)
  /\ \A r \in ReqIds :
       (ui[r].society # NoSociety /\ ui[r].pages >= 1) =>
         PromptStates(ui[r].society.task_prompt, ui[r].topic, ui[r].pages,
                      ui[r].instructions)
  /\ \A r1, r2 \in ReqIds :
       ( /\ ui[r1].society # NoSociety /\ ui[r2].society # NoSociety
         /\ ui[r1].topic = ui[r2].topic /\ ui[r1].pages = ui[r2].pages
         /\ ui[r1].instructions = ui[r2].instructions )
       => ui[r1].society.task_prompt = ui[r2].society.task_prompt

C9_Witness ==
  \E r1, r2 \in ReqIds :
    /\ r1 # r2
    /\ ui[r1].society # NoSociety /\ ui[r2].society # NoSociety
    /\ ui[r1].society.credential # ui[r2].society.credential
    /\ ui[r1].pages = 3 /\ ui[r1].topic # <<>> /\ ui[r1].instructions = DefaultInstructions
    /\ Between(ui[r2].society.task_prompt, WordsOpen, WordsClose) = <<"1", "5", "0", "0">>

CanceledOutputs == <<CanceledMessage, <<>>, 0>>

\* a step of on_cancel
CancelStep ==
  /\ outputs' = CanceledOutputs
  /\ <<outputs, cancelledInFlight>>' # <<outputs, cancelledInFlight>>

\* a request that Cancel found generating keeps its next step, and when it
\* has returned without an error it has run the society once, written its
\* file and returned the essay, the path and the token count
CancelledStillCompletes ==
  \A r \in cancelledInFlight :
    /\ ui[r].pc \in {"run", "save", "except", "done"}
    /\ ui[r].pc = "run" => ENABLED generate_essay_run_society(r)
    /\ ui[r].pc = "save" => ENABLED generate_essay_save(r)
    /\ (ui[r].pc = "done" /\ ui[r].err = None) =>
         /\ ui[r].runs = 1
         /\ ui[r].wrote
         /\ ui[r].full_path \in DOMAIN files
         /\ ui[r].ret = <<ui[r].answer, ui[r].full_path, ui[r].tokens>>

\* C10: on_cancel changes nothing of any request, of the files, of the
\* environment; a request it found generating goes on, and when its
\* orchestration call returns it writes its file and returns its result.
C10_CancelDoesNotInterrupt ==
  /\ [][CancelStep => UNCHANGED <<ui, files, env, clock, essaysDir, cli>>]_vars
  /\ [](CancelledStillCompletes)

C10_Witness ==
  \E r \in cancelledInFlight :
    /\ ui[r].pc = "done" /\ ui[r].wrote
    /\ ui[r].ret = <<ui[r].answer, ui[r].full_path, ui[r].tokens>>
    /\ files[ui[r].full_path] = ui[r].answer

====
